---- MODULE Spec2Model ----
(***************************************************************************)
(* A model of backend/server.py: the session layer (create_session,        *)
(* get_current_user, require_auth, auth_me, logout), the bookmark routes   *)
(* (add_bookmark, remove_bookmark, get_bookmarks), the content routes      *)
(* (categories, topics, search, video search) and the seeding, over the    *)
(* MongoDB collections users, user_sessions, bookmarks, categories and     *)
(* topics.                                                                 *)
(*                                                                         *)
(* Every handler is a coroutine: it runs without interruption between two  *)
(* awaits and may interleave with other requests at each await.  Each      *)
(* awaited store operation is one atomic action of the model; the code     *)
(* that runs between two awaits belongs to the action of the await that    *)
(* precedes it.                                                            *)
(*                                                                         *)
(* A collection is a sequence of documents in insertion order: find_one,   *)
(* update_one and delete_one act on the first match, delete_many on all.   *)
(* None and the empty string are both written "" for a cookie and <<>>     *)
(* for an optional document (the code tests them with "if not x").         *)
(***************************************************************************)
EXTENDS Integers, Sequences, FiniteSets, TLC

VARIABLES
    users,      \* db.users
    sessions,   \* db.user_sessions
    bookmarks,  \* db.bookmarks
    now,        \* the clock, in days
    ticks,      \* clock advances taken so far
    uuid,       \* uuid4 values drawn so far
    req,        \* the requests in flight, one slot per concurrent request
    resp,       \* the response the last step sent, if it sent one
    add_run,    \* history: the add_bookmark replies since the last removal
    categories, \* db.categories
    topics,     \* db.topics
    seeding     \* the seedings under way: where each one stands

\* The content store and its seedings.
content == <<categories, topics, seeding>>

vars ==
    <<users, sessions, bookmarks, now, ticks, uuid, req, resp, add_run,
      content>>

(* ------------------------------ bounds --------------------------------- *)

\* Clock advances the model takes.
MaxTicks == 1
\* uuid4 values drawn (user ids and bookmark ids together).
MaxUuid == 4
\* Rows of user_sessions at any one time.
MaxSessions == 2

(* ------------------------- program constants --------------------------- *)

\* timedelta(days=7) of create_session; the clock counts days.
SESSION_DAYS == 7
\* to_list(200) of get_bookmarks.
BOOKMARK_LIST_CAP == 200
\* maxResults of the search of get_topic_detail.
TOPIC_MAX_RESULTS == 5
\* maxResults of the search of search_videos.
SEARCH_MAX_RESULTS == 10
\* [:200] of the description of a video.
DESCRIPTION_MAX == 200
\* to_list(50) of search_topics.
SEARCH_LIST_CAP == 50
\* to_list(100) of get_categories.
CATEGORY_LIST_CAP == 100
\* to_list(100) of the topics of get_category_detail.
TOPIC_LIST_CAP == 100

(* ------------------------------ inputs --------------------------------- *)

Procs == {"r1", "r2"}
Tokens == {"tokA", "tokB"}
\* Topic ids a bookmark request may name.
TopicIds == {"t_cpr"}
\* The topics collection after seeding, cut down to four topics of three
\* categories.
SeedTopics ==
    <<[topic_id |-> "t_cpr", category_slug |-> "first-aid",
       title |-> "CPR - Cardiopulmonary Resuscitation"],
      [topic_id |-> "t_burns", category_slug |-> "first-aid",
       title |-> "Burns Treatment"],
      [topic_id |-> "t_taxes", category_slug |-> "finance",
       title |-> "Understanding Income Tax"],
      [topic_id |-> "t_voting", category_slug |-> "civic-sense",
       title |-> "Voting Rights & Process"]>>
\* The categories collection after seeding, cut down to three categories.
SeedCategories ==
    <<[category_id |-> "cat_first_aid", slug |-> "first-aid"],
      [category_id |-> "cat_finance", slug |-> "finance"],
      [category_id |-> "cat_civic", slug |-> "civic-sense"]>>
\* Days the clock may jump in one advance.
TickSteps == {SESSION_DAYS, SESSION_DAYS + 1}

NoCookie == ""
NoHeader == <<>>
\* An Authorization header is written as the list its split(" ") gives.
\* The credentials a request may carry: (cookie, Authorization header).
Credentials ==
    {[cookie |-> NoCookie, header |-> NoHeader],
     [cookie |-> "tokA", header |-> NoHeader],
     [cookie |-> "tokB", header |-> NoHeader],
     [cookie |-> NoCookie, header |-> <<"Bearer", "tokA">>],
     [cookie |-> NoCookie, header |-> <<"Basic", "tokA">>],
     [cookie |-> NoCookie, header |-> <<"Bearer", "">>],
     [cookie |-> "tokB", header |-> <<"Bearer", "tokA">>]}

(* --------------------------- store helpers ----------------------------- *)

\* The documents of a collection a filter selects are given by their
\* positions, hits; the collection is kept in insertion order.

\* Position of the first selected document, 0 when there is none.
FirstIndex(hits) ==
    IF hits = {} THEN 0 ELSE CHOOSE i \in hits : \A j \in hits : i <= j

\* collection.find_one(filter): the first matching document, or None.
FindOne(coll, hits) ==
    IF hits = {} THEN <<>> ELSE <<coll[FirstIndex(hits)]>>

RemoveAt(coll, i) ==
    [j \in 1..(Len(coll) - 1) |-> IF j < i THEN coll[j] ELSE coll[j + 1]]

\* collection.delete_one(filter).
DeleteOne(coll, hits) ==
    IF hits = {} THEN coll ELSE RemoveAt(coll, FirstIndex(hits))

\* collection.delete_many(filter).
DeleteMany(coll, hits) ==
    LET kept == DOMAIN coll \ hits
        Nth(k) == CHOOSE i \in kept : Cardinality({j \in kept : j < i}) = k - 1
    IN [k \in 1..Cardinality(kept) |-> coll[Nth(k)]]

\* cursor.to_list(n).
ToList(coll, n) == IF Len(coll) <= n THEN coll ELSE SubSeq(coll, 1, n)

(* ------------------------------- time ---------------------------------- *)

\* datetime.now(timezone.utc): an aware datetime.
UtcNow(t) == [t |-> t, tzinfo |-> "UTC"]
\* datetime.isoformat(): the string form, with the offset when aware.
IsoFormat(dt) ==
    [iso |-> dt.t, offset |-> IF dt.tzinfo = "UTC" THEN "+00:00" ELSE ""]
\* datetime.fromisoformat(s).
FromIsoFormat(s) ==
    [t |-> s.iso, tzinfo |-> IF s.offset = "+00:00" THEN "UTC" ELSE "None"]
IsStr(x) == "iso" \in DOMAIN x

(* ------------------------- faulty variants ----------------------------- *)
\* Each is one of the operators below with a single defect; the properties
\* at the end of the module are violated when it takes the operator's place.

\* The expiry test with "<=": a session is dead at its expiry instant.
SessionExpiredAtExpiry(session_doc, t) ==
    FromIsoFormat(session_doc.expires_at).t <= UtcNow(t).t

\* The expiry test the wrong way round.
SessionExpiredReversed(session_doc, t) ==
    FromIsoFormat(session_doc.expires_at).t > UtcNow(t).t

\* logout with delete_one in place of delete_many.
DeleteSessionsOne(token) ==
    DeleteOne(sessions,
        {i \in DOMAIN sessions :
           sessions[i].session_token = token})

\* logout that deletes every session of the users holding the token.
DeleteSessionsOfUser(token) ==
    DeleteMany(sessions,
        {i \in DOMAIN sessions :
           \E j \in DOMAIN sessions :
              /\ sessions[j].session_token = token
              /\ sessions[j].user_id = sessions[i].user_id})

\* logout that clears the collection when no cookie token is presented.
LogoutSessionsOrAll(cookie, header) ==
    IF cookie # "" THEN DeleteMany(sessions,
                            {i \in DOMAIN sessions :
                               sessions[i].session_token = cookie})
    ELSE <<>>

\* get_current_user reading the Authorization header before the cookie.
ExtractTokenHeaderFirst(cookie, header) ==
    IF Len(header) >= 2 /\ header[1] = "Bearer" THEN header[2] ELSE cookie

\* The topics of a category read without the category_slug filter.
TopicsOfAnyCategory(slug) ==
    IF Len(topics) <= TOPIC_LIST_CAP THEN topics
    ELSE SubSeq(topics, 1, TOPIC_LIST_CAP)

\* The description of a video passed on whole.
DescriptionWhole(description) == description

\* A Session document that lasts a day less than the cookie.
NewSessionShortLived(user_id, session_token, t) ==
    [user_id |-> user_id, session_token |-> session_token,
     expires_at |-> IsoFormat([UtcNow(t) EXCEPT !.t = @ + SESSION_DAYS - 1]),
     created_at |-> IsoFormat(UtcNow(t))]

\* A new User that is given an id and never written.
InsertUserNowhere(user_id, d) == users

\* An exchange that is tried a second time when it gave no response.
ExchangeCallsRetrying(answer) ==
    IF answer.kind = "transport_error" THEN 2 ELSE 1

\* The rejected exchange passed on as 403.
InvalidSessionForbidden == [status_code |-> 403, detail |-> "Invalid session"]

\* update_one that sets the name and leaves the picture.
UpdateUserNameOnly(email, name, picture) ==
    LET i == FirstIndex({k \in DOMAIN users : users[k].email = email})
    IN IF i = 0 THEN users ELSE [users EXCEPT ![i].name = name]

\* get_bookmarks without the user_id in its filter.
FindBookmarksAnyUser(user_id) == ToList(bookmarks, BOOKMARK_LIST_CAP)

(* --------------------------- get_current_user -------------------------- *)

\* auth_header.startswith("Bearer "), on the split form of the header.
StartsWithBearer(header) == Len(header) >= 2 /\ header[1] = "Bearer"

\* The token get_current_user looks up: the cookie when it is non-empty,
\* else the second word of a "Bearer ..." header, else none ("").
ExtractToken(cookie, header) ==
    IF cookie # NoCookie THEN cookie
    ELSE IF header # NoHeader /\ StartsWithBearer(header) THEN header[2]
    ELSE ""

\* The expiry test: a stored string is parsed, a naive value is taken as
\* UTC, and the session is expired when expires_at < now.
SessionExpired(session_doc, t) ==
    LET raw == session_doc.expires_at
        parsed == IF IsStr(raw) THEN FromIsoFormat(raw) ELSE raw
        aware == IF parsed.tzinfo = "None"
                 THEN [parsed EXCEPT !.tzinfo = "UTC"] ELSE parsed
    IN aware.t < UtcNow(t).t

\* db.user_sessions.find_one({"session_token": token}).
FindSession(token) ==
    FindOne(sessions,
        {i \in DOMAIN sessions :
           sessions[i].session_token = token})

\* db.users.find_one({"user_id": user_id}).
FindUserById(user_id) ==
    FindOne(users, {i \in DOMAIN users : users[i].user_id = user_id})

\* db.users.find_one({"email": email}).
FindUserByEmail(email) ==
    FindOne(users, {i \in DOMAIN users : users[i].email = email})

\* A lookup that evicts the expired rows of the token it is given.
SessionsAfterLookupEvicting(session_token) ==
    DeleteMany(sessions,
        {i \in DOMAIN sessions :
           /\ sessions[i].session_token = session_token
           /\ SessionExpired(sessions[i], now)})

\* get_current_user only reads user_sessions: the collection after its
\* lookup and expiry test is the collection before.
SessionsAfterLookup(session_token) == sessions

\* get_current_user run without interruption on the current store: the
\* user document in a one-element list, or <<>> for None.
GetCurrentUser(cookie, header) ==
    LET token == ExtractToken(cookie, header)
        session_doc == FindSession(token)
    IN IF token = "" THEN <<>>
       ELSE IF session_doc = <<>> THEN <<>>
       ELSE IF SessionExpired(session_doc[1], now) THEN <<>>
       ELSE FindUserById(session_doc[1].user_id)


(* ------------------------------ requests ------------------------------- *)

\* A request in flight: the route (op), the await it is suspended at (pc),
\* its inputs and the handler's local variables.
\* The credentials are read by get_current_user only: the slot keeps them
\* until it has returned, and the token it took from them (its local
\* session_token) for as long as the request runs.
IdleReq ==
    [op |-> "none", pc |-> "idle", cookie |-> NoCookie, header |-> NoHeader,
     session_token |-> "", topic_id |-> "",
     data |-> <<>>, existing_user |-> <<>>, user_id |-> <<>>,
     found |-> <<>>, set_cookie |-> <<>>, exchange |-> <<>>, calls |-> 0]

\* The request as it arrives: route, credentials and topic id.
Request(op, cookie, header, topic_id) ==
    [IdleReq EXCEPT !.op = op, !.cookie = cookie, !.header = header,
                    !.topic_id = topic_id]

\* No response is on its way out.
NoResp ==
    [op |-> "none", cookie |-> NoCookie, header |-> NoHeader,
     session_token |-> "", topic_id |-> "", user_id |-> <<>>,
     status |-> 0, detail |-> "", body |-> <<>>, set_cookie |-> <<>>,
     deleted_count |-> 0, exchange |-> <<>>, data |-> <<>>, calls |-> 0]

GuardedOps == {"auth_me", "add_bookmark", "get_bookmarks", "remove_bookmark"}
AllocatingOps == {"create_session", "add_bookmark"}

Free(p) == req[p].pc = "idle"
InFlight(ops) == Cardinality({q \in Procs : ~Free(q) /\ req[q].op \in ops})

\* The handler r of slot p returns (or raises): the response goes out and
\* the slot is free again.  deleted_count is the count of the DeleteResult
\* of the handler's delete, which the code does not read.
ReplyDeleted(p, r, status, detail, body, deleted_count) ==
    /\ req' = [req EXCEPT ![p] = IdleReq]
    /\ resp' = [op |-> r.op, cookie |-> r.cookie, header |-> r.header,
                session_token |-> r.session_token, topic_id |-> r.topic_id,
                user_id |-> r.user_id, status |-> status, detail |-> detail,
                body |-> body, set_cookie |-> r.set_cookie,
                deleted_count |-> deleted_count, exchange |-> r.exchange,
                data |-> r.data, calls |-> r.calls]

Reply(p, r, status, detail, body) == ReplyDeleted(p, r, status, detail, body, 0)

\* The handler of slot p is suspended at its next await, as r.
Continue(p, r) ==
    /\ req' = [req EXCEPT ![p] = r]
    /\ resp' = NoResp


\* History of the add_bookmark calls for one (user_id, topic_id) pair since
\* the last remove_bookmark for the pair: the record the first call to
\* return gave (first), the record the latest call gave (last), the slots
\* whose add_bookmark for the pair started after that first return
\* (started), and whether the latest call to return was one of them
\* (calls = 2) or not (calls = 1).
TracksPair(user_id, topic_id) ==
    /\ add_run # <<>>
    /\ add_run[1].first.user_id = user_id
    /\ add_run[1].first.topic_id = topic_id

\* A request for route op starts in slot p.
Arrived(p, op, user_id, topic_id) ==
    IF op = "add_bookmark" /\ TracksPair(user_id, topic_id)
    THEN <<[add_run[1] EXCEPT !.started = @ \cup {p}]>>
    ELSE add_run

\* add_bookmark of slot p returns bookmark.
Returned(p, bookmark) ==
    IF TracksPair(bookmark.user_id, bookmark.topic_id)
    THEN <<[first |-> add_run[1].first, last |-> bookmark,
            calls |-> IF p \in add_run[1].started THEN 2 ELSE 1,
            started |-> add_run[1].started \ {p}]>>
    ELSE <<[first |-> bookmark, last |-> bookmark, calls |-> 1,
            started |-> {}]>>

\* remove_bookmark has deleted for the pair.
Removed(user_id, topic_id) ==
    IF TracksPair(user_id, topic_id) THEN <<>> ELSE add_run

\* The pc a guarded handler continues at once require_auth has returned.
AfterAuth(op) ==
    CASE op = "add_bookmark" -> "find_bookmark"
      [] op = "remove_bookmark" -> "delete_bookmark"
      [] op = "get_bookmarks" -> "find_bookmarks"
      [] OTHER -> "done"

\* A request for a guarded route arrives and get_current_user runs up to
\* and including the session lookup and the expiry test; require_auth and
\* auth_me turn None into the 401 "Not authenticated".
AuthFindSession(p) ==
    /\ Free(p)
    /\ resp = NoResp
    /\ \E op \in GuardedOps, c \in Credentials, tp \in TopicIds :
         /\ op = "add_bookmark" => uuid + InFlight(AllocatingOps) < MaxUuid
         /\ op \in {"auth_me", "get_bookmarks"} => tp = "t_cpr"
         /\ LET session_token == ExtractToken(c.cookie, c.header)
                r == [Request(op, c.cookie, c.header,
                              IF op \in {"add_bookmark", "remove_bookmark"}
                              THEN tp ELSE "")
                        EXCEPT !.session_token = session_token]
                session_doc == FindSession(session_token)
            IN /\ sessions' = SessionsAfterLookup(session_token)
               /\ IF \/ session_token = ""
                     \/ session_doc = <<>>
                     \/ SessionExpired(session_doc[1], now)
                  THEN /\ Reply(p, r, 401, "Not authenticated", <<>>)
                       /\ add_run' = add_run
                  ELSE /\ Continue(p, [r EXCEPT !.pc = "auth_user",
                                         !.user_id = <<session_doc[1].user_id>>])
                       /\ add_run' = Arrived(p, op, session_doc[1].user_id,
                                             r.topic_id)
    /\ UNCHANGED <<content, users, bookmarks, now, ticks, uuid>>

\* get_current_user's user lookup; auth_me returns the user document, the
\* bookmark handlers go on with user["user_id"].
AuthFindUser(p) ==
    /\ req[p].pc = "auth_user"
    /\ resp = NoResp
    /\ LET r == req[p]
           user_doc == FindUserById(r.user_id[1])
       IN IF user_doc = <<>> THEN Reply(p, r, 401, "Not authenticated", <<>>)
          ELSE IF r.op = "auth_me" THEN Reply(p, r, 200, "", user_doc)
          ELSE Continue(p, [r EXCEPT !.pc = AfterAuth(r.op),
                                     !.cookie = NoCookie, !.header = NoHeader,
                                     !.user_id = <<user_doc[1].user_id>>])
    /\ UNCHANGED <<content, users, sessions, bookmarks, now, ticks, uuid, add_run>>

(* ---------------------------- create_session --------------------------- *)

\* The session data the identity exchange may return; picture <<>> is a
\* response without a "picture" key.
ExchangeData ==
    {[email |-> "a@x", name |-> "Ann", picture |-> <<"a.png">>,
      session_token |-> "tokA"],
     [email |-> "b@x", name |-> "Bob", picture |-> <<"b.png">>,
      session_token |-> "tokB"]}

\* The session data of an account that signs in again with a changed
\* profile (new name, no picture) and gets another token.
ReloginData ==
    {[email |-> "a@x", name |-> "Anne", picture |-> <<>>,
      session_token |-> "tokB"]}

\* What the identity exchange may answer: 200 with the session data, a
\* non-200 status, or no HTTP response at all (httpx raises).
ExchangeResponses ==
    {[kind |-> "response", status_code |-> 200, json |-> <<d>>] : d \in ExchangeData}
      \cup {[kind |-> "response", status_code |-> 401, json |-> <<>>],
            [kind |-> "response", status_code |-> 403, json |-> <<>>],
            [kind |-> "transport_error", status_code |-> 0, json |-> <<>>]}
ReloginResponses ==
    {[kind |-> "response", status_code |-> 200, json |-> <<d>>] : d \in ReloginData}

\* max_age=7 * 24 * 60 * 60 of response.set_cookie.
COOKIE_MAX_AGE == 7 * 24 * 60 * 60

\* raise HTTPException(status_code=401, detail="Invalid session").
InvalidSession == [status_code |-> 401, detail |-> "Invalid session"]

\* The GETs create_session sends to the identity exchange for one request:
\* the one http_client.get, whatever its answer (no loop, no retry).
ExchangeCalls(answer) == 1

\* A POST /auth/session arrives; the GET to the identity exchange, which
\* gives one of answers, and the reading of its answer.
Exchange(p, answers) ==
    /\ Free(p)
    /\ resp = NoResp
    /\ uuid + InFlight(AllocatingOps) < MaxUuid
    /\ Len(sessions) + InFlight({"create_session"}) < MaxSessions
    /\ \E answer \in answers :
         LET r == [Request("create_session", NoCookie, NoHeader, "") EXCEPT
                     !.exchange = <<[kind |-> answer.kind,
                                     status_code |-> answer.status_code]>>,
                     !.calls = ExchangeCalls(answer)]
             d == answer.json[1]
         IN IF answer.kind = "transport_error"
              THEN Reply(p, r, 500, "Internal Server Error", <<>>)
            ELSE IF answer.status_code # 200
              THEN Reply(p, r, InvalidSession.status_code,
                         InvalidSession.detail, <<>>)
            ELSE Continue(p, [r EXCEPT !.pc = "find_user",
                   !.data = <<[email |-> d.email, name |-> d.name,
                               picture |-> IF d.picture = <<>> THEN ""
                                           ELSE d.picture[1],
                               session_token |-> d.session_token]>>])
    /\ UNCHANGED <<content, users, sessions, bookmarks, now, ticks, uuid, add_run>>

CreateSessionExchange(p) == Exchange(p, ExchangeResponses)
CreateSessionRelogin(p) == Exchange(p, ReloginResponses)

\* existing_user = db.users.find_one({"email": email}).
CreateSessionFindUser(p) ==
    /\ req[p].pc = "find_user"
    /\ resp = NoResp
    /\ Continue(p, [req[p] EXCEPT !.pc = "write_user",
                      !.existing_user = FindUserByEmail(req[p].data[1].email)])
    /\ UNCHANGED <<content, users, sessions, bookmarks, now, ticks, uuid, add_run>>

\* db.users.update_one({"email": email}, {"$set": {name, picture}}).
UpdateUser(email, name, picture) ==
    LET i == FirstIndex({k \in DOMAIN users : users[k].email = email})
    IN IF i = 0 THEN users
       ELSE [users EXCEPT ![i].name = name, ![i].picture = picture]

\* db.users.insert_one({...}).
InsertUser(user_id, d) ==
    Append(users, [user_id |-> user_id, email |-> d.email, name |-> d.name,
                   picture |-> d.picture,
                   created_at |-> IsoFormat(UtcNow(now))])

\* The branch on existing_user: update in place, or insert a new User
\* with a fresh "user_<uuid4>" id.
CreateSessionWriteUser(p) ==
    /\ req[p].pc = "write_user"
    /\ resp = NoResp
    /\ LET r == req[p]
           d == r.data[1]
       IN IF r.existing_user # <<>>
          THEN /\ users' = UpdateUser(d.email, d.name, d.picture)
               /\ Continue(p, [r EXCEPT !.pc = "insert_session",
                                        !.user_id = <<r.existing_user[1].user_id>>,
                                        !.existing_user = <<>>])
               /\ uuid' = uuid
          ELSE /\ users' = InsertUser(<<"user", uuid + 1>>, d)
               /\ Continue(p, [r EXCEPT !.pc = "insert_session",
                                        !.user_id = <<(<<"user", uuid + 1>>)>>])
               /\ uuid' = uuid + 1
    /\ UNCHANGED <<content, sessions, bookmarks, now, ticks, add_run>>

\* The Session document create_session builds.
NewSession(user_id, session_token, t) ==
    [user_id |-> user_id, session_token |-> session_token,
     expires_at |-> IsoFormat([UtcNow(t) EXCEPT !.t = @ + SESSION_DAYS]),
     created_at |-> IsoFormat(UtcNow(t))]

\* db.user_sessions.insert_one({...}), then response.set_cookie(...).
CreateSessionInsertSession(p) ==
    /\ req[p].pc = "insert_session"
    /\ resp = NoResp
    /\ LET r == req[p]
           tok == r.data[1].session_token
       IN /\ sessions' = Append(sessions, NewSession(r.user_id[1], tok, now))
          /\ Continue(p, [r EXCEPT !.pc = "final_find",
                            !.set_cookie = <<[value |-> tok,
                                              max_age |-> COOKIE_MAX_AGE]>>])
    /\ UNCHANGED <<content, users, bookmarks, now, ticks, uuid, add_run>>

\* user_doc = db.users.find_one({"user_id": user_id}) and the result.
CreateSessionReturn(p) ==
    /\ req[p].pc = "final_find"
    /\ resp = NoResp
    /\ LET r == req[p]
       IN Reply(p, r, 200, "",
                <<[user |-> FindUserById(r.user_id[1]),
                   session_token |-> r.data[1].session_token]>>)
    /\ UNCHANGED <<content, users, sessions, bookmarks, now, ticks, uuid, add_run>>

(* -------------------------------- logout ------------------------------- *)

\* The token logout deletes by: request.cookies.get("session_token").
LogoutToken(cookie, header) == cookie

\* db.user_sessions.delete_many({"session_token": token}).
DeleteSessions(token) ==
    DeleteMany(sessions,
        {i \in DOMAIN sessions :
           sessions[i].session_token = token})

\* The user_sessions collection once logout has run with these credentials.
LogoutSessions(cookie, header) ==
    LET session_token == LogoutToken(cookie, header)
    IN IF session_token # "" THEN DeleteSessions(session_token) ELSE sessions

\* POST /auth/logout: the delete (when a cookie token was presented),
\* delete_cookie and the reply.
Logout(p) ==
    /\ Free(p)
    /\ resp = NoResp
    /\ \E c \in Credentials :
         /\ sessions' = LogoutSessions(c.cookie, c.header)
         /\ ReplyDeleted(p, [Request("logout", c.cookie, c.header, "") EXCEPT
                               !.session_token = LogoutToken(c.cookie, c.header),
                               !.set_cookie = <<[value |-> "", max_age |-> 0]>>],
                         200, "Logged out", <<>>,
                         Len(sessions) - Len(LogoutSessions(c.cookie, c.header)))
    /\ UNCHANGED <<content, users, bookmarks, now, ticks, uuid, add_run>>

(* ------------------------------ bookmarks ------------------------------ *)

\* db.bookmarks.find_one({"user_id": user_id, "topic_id": topic_id}).
FindBookmark(user_id, topic_id) ==
    FindOne(bookmarks,
        {i \in DOMAIN bookmarks :
           bookmarks[i].user_id = user_id
           /\ bookmarks[i].topic_id = topic_id})

\* existing = find_one(...); "if existing: return existing".
AddBookmarkFind(p) ==
    /\ req[p].pc = "find_bookmark"
    /\ resp = NoResp
    /\ LET r == req[p]
           existing == FindBookmark(r.user_id[1], r.topic_id)
       IN IF existing # <<>>
          THEN Reply(p, r, 200, "", existing)
               /\ add_run' = Returned(p, existing[1])
          ELSE Continue(p, [r EXCEPT !.pc = "insert_bookmark"])
                 /\ add_run' = add_run
    /\ UNCHANGED <<content, users, sessions, bookmarks, now, ticks, uuid>>

\* The Bookmark document add_bookmark builds.
NewBookmark(bookmark_id, user_id, topic_id, t) ==
    [bookmark_id |-> bookmark_id, user_id |-> user_id, topic_id |-> topic_id,
     created_at |-> IsoFormat(UtcNow(t))]

\* db.bookmarks.insert_one(bookmark) and the copy that is returned.
AddBookmarkInsert(p) ==
    /\ req[p].pc = "insert_bookmark"
    /\ resp = NoResp
    /\ LET r == req[p]
           bookmark == NewBookmark(<<"bm", uuid + 1>>, r.user_id[1],
                                   r.topic_id, now)
       IN /\ bookmarks' = Append(bookmarks, bookmark)
          /\ Reply(p, r, 200, "", <<bookmark>>)
          /\ add_run' = Returned(p, bookmark)
    /\ uuid' = uuid + 1
    /\ UNCHANGED <<content, users, sessions, now, ticks>>

\* db.bookmarks.delete_one({"user_id": user_id, "topic_id": topic_id}).
DeleteBookmark(user_id, topic_id) ==
    DeleteOne(bookmarks,
        {i \in DOMAIN bookmarks :
           bookmarks[i].user_id = user_id
           /\ bookmarks[i].topic_id = topic_id})

RemoveBookmark(p) ==
    /\ req[p].pc = "delete_bookmark"
    /\ resp = NoResp
    /\ LET r == req[p]
       IN /\ bookmarks' = DeleteBookmark(r.user_id[1], r.topic_id)
          /\ ReplyDeleted(p, r, 200, "Bookmark removed", <<>>,
                          Len(bookmarks) - Len(DeleteBookmark(r.user_id[1], r.topic_id)))
          /\ add_run' = Removed(r.user_id[1], r.topic_id)
    /\ UNCHANGED <<content, users, sessions, now, ticks, uuid>>

\* db.bookmarks.find({"user_id": user_id}).to_list(200).
FindBookmarks(user_id) ==
    LET Match(b) == b.user_id = user_id
    IN ToList(SelectSeq(bookmarks, Match), BOOKMARK_LIST_CAP)

GetBookmarksFind(p) ==
    /\ req[p].pc = "find_bookmarks"
    /\ resp = NoResp
    /\ Continue(p, [req[p] EXCEPT !.pc = "enrich",
                                  !.found = FindBookmarks(req[p].user_id[1])])
    /\ UNCHANGED <<content, users, sessions, bookmarks, now, ticks, uuid, add_run>>

\* db.topics.find_one({"topic_id": topic_id}).
FindTopic(topic_id) ==
    FindOne(topics, {i \in DOMAIN topics : topics[i].topic_id = topic_id})

\* bm["topic"] = topic, for every bookmark found.
Enrich(bms) ==
    [i \in DOMAIN bms |->
       [bookmark_id |-> bms[i].bookmark_id, user_id |-> bms[i].user_id,
        topic_id |-> bms[i].topic_id, created_at |-> bms[i].created_at,
        topic |-> FindTopic(bms[i].topic_id)]]

\* The loop of topic lookups (topics do not change in this model).
GetBookmarksReturn(p) ==
    /\ req[p].pc = "enrich"
    /\ resp = NoResp
    /\ Reply(p, req[p], 200, "", Enrich(req[p].found))
    /\ UNCHANGED <<content, users, sessions, bookmarks, now, ticks, uuid, add_run>>

(* -------------------------------- clock -------------------------------- *)

\* The response leaves the server.
SendResponse ==
    /\ resp # NoResp
    /\ resp' = NoResp
    /\ UNCHANGED <<content, users, sessions, bookmarks, now, ticks, uuid, req, add_run>>

Tick ==
    /\ resp = NoResp
    /\ ticks < MaxTicks
    /\ \E d \in TickSteps : now' = now + d
    /\ ticks' = ticks + 1
    /\ resp' = NoResp
    /\ UNCHANGED <<content, users, sessions, bookmarks, uuid, req, add_run>>

(* ---------------------------- specification ---------------------------- *)

\* The processes that seed at startup.
Workers == {"w1", "w2"}

\* The content store once a startup has seeded it and every startup is
\* over: what the requests of the specifications below work on.
Seeded ==
    /\ categories = SeedCategories
    /\ topics = SeedTopics
    /\ seeding = [w \in Workers |-> "done"]

Init ==
    /\ users = <<>>
    /\ sessions = <<>>
    /\ bookmarks = <<>>
    /\ now = 0
    /\ ticks = 0
    /\ uuid = 0
    /\ req = [p \in Procs |-> IdleReq]
    /\ resp = NoResp
    /\ add_run = <<>>
    /\ Seeded

Step(p) ==
    \/ CreateSessionExchange(p)
    \/ CreateSessionFindUser(p)
    \/ CreateSessionWriteUser(p)
    \/ CreateSessionInsertSession(p)
    \/ CreateSessionReturn(p)
    \/ Logout(p)
    \/ AuthFindSession(p)
    \/ AuthFindUser(p)
    \/ AddBookmarkFind(p)
    \/ AddBookmarkInsert(p)
    \/ RemoveBookmark(p)
    \/ GetBookmarksFind(p)
    \/ GetBookmarksReturn(p)

\* Requests overlap freely; the clock stands still.
Next ==
    \/ \E p \in Procs : Step(p)
    \/ SendResponse

Spec == Init /\ [][Next]_vars

\* One request at a time (a single slot), and the clock advances between
\* steps.
SeqNext ==
    \/ Step("r1")
    \/ CreateSessionRelogin("r1")
    \/ SendResponse
    \/ Tick

SpecSeq == Init /\ [][SeqNext]_vars

\* A user_sessions row whose User is missing: the service itself never
\* deletes a User, so such a row is left by another writer of the database
\* (get_current_user provides for it: "return user_doc" may return None).
OrphanSession == NewSession(<<"user", 0>>, "tokB", 0)

InitOrphan ==
    /\ users = <<>>
    /\ sessions = <<OrphanSession>>
    /\ bookmarks = <<>>
    /\ now = 0
    /\ ticks = 0
    /\ uuid = 0
    /\ req = [p \in Procs |-> IdleReq]
    /\ resp = NoResp
    /\ add_run = <<>>
    /\ Seeded

\* One request at a time over a store that starts with the orphaned row.
SpecOrphan == InitOrphan /\ [][SeqNext]_vars

(* ----------------------- categories and topics ------------------------ *)

\* Slugs and topic ids a catalogue request may name; the last of each is
\* the slug of no Category, the id of no Topic.
Slugs == {"first-aid", "finance", "civic-sense", "not-a-real-slug"}
CatalogTopicIds == {"t_cpr", "t_burns", "t_taxes", "t_none"}

\* db.categories.find_one({"slug": slug}).
FindCategory(slug) ==
    FindOne(categories, {i \in DOMAIN categories : categories[i].slug = slug})

\* db.topics.find({"category_slug": slug}).to_list(100).
TopicsOfCategory(slug) ==
    LET Match(t) == t.category_slug = slug
    IN ToList(SelectSeq(topics, Match), TOPIC_LIST_CAP)

\* GET /categories/{slug} arrives; the category lookup and its 404.
GetCategoryFind(p) ==
    /\ Free(p)
    /\ resp = NoResp
    /\ \E slug \in Slugs :
         LET r == [Request("get_category_detail", NoCookie, NoHeader, "")
                     EXCEPT !.data = <<[slug |-> slug]>>]
             cat == FindCategory(slug)
         IN IF cat = <<>>
            THEN Reply(p, r, 404, "Category not found", <<>>)
            ELSE Continue(p, [r EXCEPT !.pc = "category_topics",
                                       !.found = cat])
    /\ UNCHANGED <<content, users, sessions, bookmarks, now, ticks, uuid, add_run>>

\* topics = find(...).to_list(100); cat["topic_count"] = len(topics).
GetCategoryTopics(p) ==
    /\ req[p].pc = "category_topics"
    /\ resp = NoResp
    /\ LET r == req[p]
           cat == r.found[1]
           found_topics == TopicsOfCategory(r.data[1].slug)
       IN Reply(p, r, 200, "",
                <<[category |-> [category_id |-> cat.category_id,
                                 slug |-> cat.slug,
                                 topic_count |-> Len(found_topics)],
                   topics |-> found_topics]>>)
    /\ UNCHANGED <<content, users, sessions, bookmarks, now, ticks, uuid, add_run>>

(* ---------------------------- video lookup ----------------------------- *)

\* The text of a description of n characters, character by character.
Text(n) == [i \in 1..n |-> i]

\* item["snippet"]["description"][:200].
Description(description) ==
    IF Len(description) <= DESCRIPTION_MAX THEN description
    ELSE SubSeq(description, 1, DESCRIPTION_MAX)

\* A search result item of the provider; video_id <<>> is an item
\* without item["id"]["videoId"], which the handlers cannot read.
Item(video_id, n) ==
    [video_id |-> video_id, title |-> "title", description |-> Text(n),
     thumbnail |-> "url", channel_title |-> "channel"]
Short == Item(<<"v1">>, 3)
Long == Item(<<"v2">>, DESCRIPTION_MAX + 1)
Exact == Item(<<"v3">>, DESCRIPTION_MAX)
Unreadable == Item(<<>>, 3)

\* What the provider has for a query, before maxResults cuts it.
Available ==
    {<<>>, <<Short>>, <<Long, Short>>, <<Exact>>, <<Unreadable>>,
     <<Short, Unreadable, Long>>,
     [i \in 1..(SEARCH_MAX_RESULTS + 1) |-> IF i = 2 THEN Long ELSE Short]}

\* How a lookup may go: build(...) raises, request.execute() raises
\* HttpError or another exception, or it returns items (a response
\* without "items" is the list <<>>).
LookupOutcomes ==
    {[kind |-> k, available |-> <<>>] :
        k \in {"build_error", "http_error", "error"}}
      \cup {[kind |-> "ok", available |-> a] : a \in Available}

\* YOUTUBE_API_KEY of the process: unset ("") or set.
ApiKeys == {"", "key"}

\* yt_response.get("items", []) of a search with maxResults.
Items(outcome, maxResults) ==
    IF Len(outcome.available) <= maxResults THEN outcome.available
    ELSE SubSeq(outcome.available, 1, maxResults)

\* The dict the handlers append for an item.
Video(item) ==
    [video_id |-> item.video_id[1], title |-> item.title,
     description |-> Description(item.description),
     thumbnail |-> item.thumbnail, channel_title |-> item.channel_title]

\* Position of the first item the loop cannot read, 0 when it reads all.
FirstUnreadable(items) ==
    FirstIndex({i \in DOMAIN items : items[i].video_id = <<>>})

\* videos of get_topic_detail: the list is filled inside the try, and the
\* except clauses log and go on with what was appended so far.
TopicVideos(api_key, outcome) ==
    IF api_key = "" \/ outcome.kind # "ok" THEN <<>>
    ELSE LET items == Items(outcome, TOPIC_MAX_RESULTS)
             stop == FirstUnreadable(items)
             n == IF stop = 0 THEN Len(items) ELSE stop - 1
         IN [i \in 1..n |-> Video(items[i])]

\* videos of search_videos: the except clause returns the empty list.
SearchedVideos(q, api_key, outcome) ==
    IF q = "" \/ api_key = "" \/ outcome.kind # "ok" THEN <<>>
    ELSE LET items == Items(outcome, SEARCH_MAX_RESULTS)
         IN IF FirstUnreadable(items) # 0 THEN <<>>
            ELSE [i \in DOMAIN items |-> Video(items[i])]

\* The searches a handler sends to the provider for one request: the one
\* request.execute(), reached when the key is set and build(...) returned.
LookupCalls(api_key, outcome) ==
    IF api_key = "" \/ outcome.kind = "build_error" THEN 0 ELSE 1

\* GET /topics/{topic_id} arrives; the topic lookup and its 404.
GetTopicFind(p) ==
    /\ Free(p)
    /\ resp = NoResp
    /\ \E topic_id \in CatalogTopicIds :
         LET r == Request("get_topic_detail", NoCookie, NoHeader, topic_id)
             topic == FindTopic(topic_id)
         IN IF topic = <<>>
            THEN Reply(p, r, 404, "Topic not found", <<>>)
            ELSE Continue(p, [r EXCEPT !.pc = "topic_videos",
                                       !.found = topic])
    /\ UNCHANGED <<content, users, sessions, bookmarks, now, ticks, uuid, add_run>>

\* The video lookup of get_topic_detail and the reply.
GetTopicVideos(p) ==
    /\ req[p].pc = "topic_videos"
    /\ resp = NoResp
    /\ \E api_key \in ApiKeys, outcome \in LookupOutcomes :
         LET r == [req[p] EXCEPT
                     !.exchange = <<[api_key |-> api_key, outcome |-> outcome]>>,
                     !.calls = LookupCalls(api_key, outcome)]
         IN Reply(p, r, 200, "",
                  <<[topic |-> r.found[1],
                     videos |-> TopicVideos(api_key, outcome)]>>)
    /\ UNCHANGED <<content, users, sessions, bookmarks, now, ticks, uuid, add_run>>

\* Queries of GET /videos/search.
Queries == {"", "cpr", "income tax"}

\* GET /videos/search?q= arrives.
SearchVideosArrive(p) ==
    /\ Free(p)
    /\ resp = NoResp
    /\ \E q \in Queries :
         Continue(p, [Request("search_videos", NoCookie, NoHeader, "")
                        EXCEPT !.pc = "search_videos",
                               !.data = <<[q |-> q]>>])
    /\ UNCHANGED <<content, users, sessions, bookmarks, now, ticks, uuid, add_run>>

\* search_videos: the handler has no await of its own.
SearchVideos(p) ==
    /\ req[p].pc = "search_videos"
    /\ resp = NoResp
    /\ \E api_key \in ApiKeys, outcome \in LookupOutcomes :
         LET r == [req[p] EXCEPT
                     !.exchange = <<[api_key |-> api_key, outcome |-> outcome]>>,
                     !.calls = IF req[p].data[1].q = "" THEN 0
                               ELSE LookupCalls(api_key, outcome)]
         IN Reply(p, r, 200, "",
                  <<[videos |-> SearchedVideos(r.data[1].q, api_key, outcome)]>>)
    /\ UNCHANGED <<content, users, sessions, bookmarks, now, ticks, uuid, add_run>>

(* ---------------------------- search_topics ---------------------------- *)

\* Text is a sequence of characters here. The searched fields of the
\* seeded topics, each cut down to one word (two tags).
SearchedFields ==
    [t_cpr |->
        [title |-> <<"C", "P", "R">>,
         description |-> <<"L", "e", "a", "r", "n">>,
         content |-> <<"S", "t", "e", "p", "s">>,
         tags |-> <<<<"c", "p", "r">>, <<"h", "e", "a", "r", "t">>>>],
      t_burns |->
        [title |-> <<"B", "u", "r", "n", "s">>,
         description |-> <<"H", "o", "w">>,
         content |-> <<"C", "o", "o", "l">>,
         tags |-> <<<<"b", "u", "r", "n", "s">>, <<"s", "k", "i", "n">>>>],
      t_taxes |->
        [title |-> <<"T", "a", "x">>,
         description |-> <<"g", "u", "i", "d", "e">>,
         content |-> <<"F", "o", "r", "m">>,
         tags |-> <<<<"t", "a", "x">>, <<"i", "n", "c", "o", "m", "e">>>>],
      t_voting |->
        [title |-> <<"V", "o", "t", "i", "n", "g">>,
         description |-> <<"v", "o", "t", "e">>,
         content |-> <<"E", "V", "M">>,
         tags |-> <<<<"v", "o", "t", "i", "n", "g">>, <<"r", "i", "g", "h", "t", "s">>>>]]

\* The characters a query is made of: letters, and the regular expression
\* characters "." (any character) and "(" (opens a group).
QueryChars == {"c", "P", "t", ".", "("}
\* Length of the longest query.
MaxQueryLen == 2
SearchQueries ==
    {<<>>} \cup UNION {[1..n -> QueryChars] : n \in 1..MaxQueryLen}

UpperCase == <<"A", "B", "C", "E", "F", "H", "L", "M", "P", "R", "S", "T", "V">>
LowerCase == <<"a", "b", "c", "e", "f", "h", "l", "m", "p", "r", "s", "t", "v">>
\* Case folding of "$options": "i".
Fold(ch) ==
    IF \E i \in DOMAIN UpperCase : UpperCase[i] = ch
    THEN LowerCase[CHOOSE i \in DOMAIN UpperCase : UpperCase[i] = ch]
    ELSE ch

\* {"$regex": q}: q is compiled as a regular expression; a group that is
\* opened and not closed does not compile.
RegexCompiles(q) == \A i \in DOMAIN q : q[i] # "("

\* The regular expression q matches text at position k: "." stands for any
\* character, a letter for itself in either case.
RegexMatchesAt(q, text, k) ==
    /\ k + Len(q) - 1 <= Len(text)
    /\ \A i \in DOMAIN q :
         q[i] = "." \/ Fold(q[i]) = Fold(text[k + i - 1])

\* An unanchored search of text for the regular expression q.
RegexSearch(q, text) == \E k \in DOMAIN text : RegexMatchesAt(q, text, k)

\* {"$or": [{"title": regex}, {"description": regex}, {"tags": regex},
\* {"content": regex}]}; a regex on an array field matches any element.
TopicMatches(q, topic_id) ==
    LET f == SearchedFields[topic_id]
    IN \/ RegexSearch(q, f.title)
       \/ RegexSearch(q, f.description)
       \/ \E i \in DOMAIN f.tags : RegexSearch(q, f.tags[i])
       \/ RegexSearch(q, f.content)

\* db.topics.find({"$or": ...}).to_list(50).
SearchResults(q) ==
    LET Match(t) == TopicMatches(q, t.topic_id)
    IN ToList(SelectSeq(topics, Match), SEARCH_LIST_CAP)

\* GET /search?q=: a short q returns at once; a q that the store cannot
\* compile makes find raise, which nothing in the handler catches.
SearchTopics(p) ==
    /\ Free(p)
    /\ resp = NoResp
    /\ \E q \in SearchQueries :
         LET r == [Request("search_topics", NoCookie, NoHeader, "")
                     EXCEPT !.data = <<[q |-> q]>>]
         IN IF q = <<>> \/ Len(q) < 2
            THEN Reply(p, r, 200, "", <<[results |-> <<>>]>>)
            ELSE IF ~RegexCompiles(q)
            THEN Reply(p, r, 500, "Internal Server Error", <<>>)
            ELSE Reply(p, r, 200, "", <<[results |-> SearchResults(q)]>>)
    /\ UNCHANGED <<content, users, sessions, bookmarks, now, ticks, uuid, add_run>>

\* The routes that need no authentication, one request at a time.
CatalogNext ==
    \/ GetCategoryFind("r1")
    \/ GetCategoryTopics("r1")
    \/ GetTopicFind("r1")
    \/ GetTopicVideos("r1")
    \/ SearchVideosArrive("r1")
    \/ SearchVideos("r1")
    \/ SearchTopics("r1")
    \/ SendResponse

SpecCatalog == Init /\ [][CatalogNext]_vars

(* ------------------------ a long bookmark list ------------------------- *)

\* 201 topic ids as a client may send them to add_bookmark, which stores
\* any topic_id it is given: the seeded "t_cpr" and 200 ids of no Topic.
ManyTopicIds ==
    <<"t_cpr", "t_001", "t_002", "t_003", "t_004", "t_005", "t_006",
      "t_007", "t_008", "t_009", "t_010", "t_011", "t_012", "t_013",
      "t_014", "t_015", "t_016", "t_017", "t_018", "t_019", "t_020",
      "t_021", "t_022", "t_023", "t_024", "t_025", "t_026", "t_027",
      "t_028", "t_029", "t_030", "t_031", "t_032", "t_033", "t_034",
      "t_035", "t_036", "t_037", "t_038", "t_039", "t_040", "t_041",
      "t_042", "t_043", "t_044", "t_045", "t_046", "t_047", "t_048",
      "t_049", "t_050", "t_051", "t_052", "t_053", "t_054", "t_055",
      "t_056", "t_057", "t_058", "t_059", "t_060", "t_061", "t_062",
      "t_063", "t_064", "t_065", "t_066", "t_067", "t_068", "t_069",
      "t_070", "t_071", "t_072", "t_073", "t_074", "t_075", "t_076",
      "t_077", "t_078", "t_079", "t_080", "t_081", "t_082", "t_083",
      "t_084", "t_085", "t_086", "t_087", "t_088", "t_089", "t_090",
      "t_091", "t_092", "t_093", "t_094", "t_095", "t_096", "t_097",
      "t_098", "t_099", "t_100", "t_101", "t_102", "t_103", "t_104",
      "t_105", "t_106", "t_107", "t_108", "t_109", "t_110", "t_111",
      "t_112", "t_113", "t_114", "t_115", "t_116", "t_117", "t_118",
      "t_119", "t_120", "t_121", "t_122", "t_123", "t_124", "t_125",
      "t_126", "t_127", "t_128", "t_129", "t_130", "t_131", "t_132",
      "t_133", "t_134", "t_135", "t_136", "t_137", "t_138", "t_139",
      "t_140", "t_141", "t_142", "t_143", "t_144", "t_145", "t_146",
      "t_147", "t_148", "t_149", "t_150", "t_151", "t_152", "t_153",
      "t_154", "t_155", "t_156", "t_157", "t_158", "t_159", "t_160",
      "t_161", "t_162", "t_163", "t_164", "t_165", "t_166", "t_167",
      "t_168", "t_169", "t_170", "t_171", "t_172", "t_173", "t_174",
      "t_175", "t_176", "t_177", "t_178", "t_179", "t_180", "t_181",
      "t_182", "t_183", "t_184", "t_185", "t_186", "t_187", "t_188",
      "t_189", "t_190", "t_191", "t_192", "t_193", "t_194", "t_195",
      "t_196", "t_197", "t_198", "t_199", "t_200">>

\* The numbers of bookmarks the user of InitMany has.
ManyCounts == {0, 1, 2, BOOKMARK_LIST_CAP - 1, BOOKMARK_LIST_CAP,
               BOOKMARK_LIST_CAP + 1}

\* The store after one user signed in (token tokA) and bookmarked n
\* different topic ids, one request after the other.
ManyBookmarks(n) ==
    [i \in 1..n |-> NewBookmark(<<"bm", i + 1>>, <<"user", 1>>,
                                ManyTopicIds[i], 0)]

InitMany ==
    /\ users = <<[user_id |-> <<"user", 1>>, email |-> "a@x", name |-> "Ann",
                  picture |-> "a.png", created_at |-> IsoFormat(UtcNow(0))]>>
    /\ sessions = <<NewSession(<<"user", 1>>, "tokA", 0)>>
    /\ \E n \in ManyCounts :
         /\ bookmarks = ManyBookmarks(n)
         /\ uuid = n + 1
    /\ now = 0
    /\ ticks = 0
    /\ req = [p \in Procs |-> IdleReq]
    /\ resp = NoResp
    /\ add_run = <<>>
    /\ Seeded

\* The guarded routes that read or shrink the list, one request at a time.
ManyNext ==
    \/ AuthFindSession("r1")
    \/ AuthFindUser("r1")
    \/ GetBookmarksFind("r1")
    \/ GetBookmarksReturn("r1")
    \/ RemoveBookmark("r1")
    \/ SendResponse

SpecMany == InitMany /\ [][ManyNext]_vars


(* ------------------------- the external calls -------------------------- *)

\* The routes that call the identity exchange or the video provider, one
\* request at a time.
ExternalNext ==
    \/ CreateSessionExchange("r1")
    \/ CreateSessionFindUser("r1")
    \/ CreateSessionWriteUser("r1")
    \/ CreateSessionInsertSession("r1")
    \/ CreateSessionReturn("r1")
    \/ GetTopicFind("r1")
    \/ GetTopicVideos("r1")
    \/ SearchVideosArrive("r1")
    \/ SearchVideos("r1")
    \/ SendResponse

SpecExternal == Init /\ [][ExternalNext]_vars

(* --------------------------- a large category -------------------------- *)

\* db.topics.count_documents({"category_slug": slug}).
CountDocuments(slug) ==
    Cardinality({i \in DOMAIN topics : topics[i].category_slug = slug})

\* GET /categories arrives: cats = db.categories.find({}).to_list(100).
GetCategoriesFind(p) ==
    /\ Free(p)
    /\ resp = NoResp
    /\ Continue(p, [Request("get_categories", NoCookie, NoHeader, "")
                      EXCEPT !.pc = "count_topics",
                             !.found = ToList(categories, CATEGORY_LIST_CAP)])
    /\ UNCHANGED <<content, users, sessions, bookmarks, now, ticks, uuid, add_run>>

\* The loop of get_categories: one count_documents per category, kept in
\* data; the list is returned after the last one.
GetCategoriesCount(p) ==
    /\ req[p].pc = "count_topics"
    /\ resp = NoResp
    /\ LET r == req[p]
           i == Len(r.data) + 1
           counted == IF i <= Len(r.found)
                      THEN Append(r.data,
                                  [category_id |-> r.found[i].category_id,
                                   slug |-> r.found[i].slug,
                                   topic_count |-> CountDocuments(r.found[i].slug)])
                      ELSE r.data
       IN IF Len(counted) < Len(r.found)
          THEN Continue(p, [r EXCEPT !.data = counted])
          ELSE Reply(p, [r EXCEPT !.data = <<>>], 200, "", counted)
    /\ UNCHANGED <<content, users, sessions, bookmarks, now, ticks, uuid, add_run>>

\* Numbers of topics a category may hold, around the page size of
\* get_category_detail.
TopicCounts == {1, 2, TOPIC_LIST_CAP - 1, TOPIC_LIST_CAP, TOPIC_LIST_CAP + 1}

\* n topics of a category, with the topic ids of ManyTopicIds.
ManyTopics(n, slug) ==
    [i \in 1..n |-> [topic_id |-> ManyTopicIds[i], category_slug |-> slug,
                     title |-> "CPR - Cardiopulmonary Resuscitation"]]

\* A content store whose categories first-aid and finance hold n and m
\* topics; civic-sense has the seeded one.
InitLarge ==
    /\ users = <<>>
    /\ sessions = <<>>
    /\ bookmarks = <<>>
    /\ now = 0
    /\ ticks = 0
    /\ uuid = 0
    /\ req = [p \in Procs |-> IdleReq]
    /\ resp = NoResp
    /\ add_run = <<>>
    /\ categories = SeedCategories
    /\ \E n \in TopicCounts, m \in {1, TOPIC_LIST_CAP + 1} :
         topics = ManyTopics(n, "first-aid")
                    \o <<SeedTopics[4]>> \o ManyTopics(m, "finance")
    /\ seeding = [w \in Workers |-> "done"]

\* The two routes that report topic_count, one request at a time.
LargeNext ==
    \/ GetCategoriesFind("r1")
    \/ GetCategoriesCount("r1")
    \/ GetCategoryFind("r1")
    \/ GetCategoryTopics("r1")
    \/ SendResponse

SpecLarge == InitLarge /\ [][LargeNext]_vars

(* ------------------------------- seeding ------------------------------- *)

\* db.categories.count_documents({}).
CountCategories == Len(categories)

\* startup of worker w: cat_count = count_documents({}); "if cat_count == 0"
\* it goes on to seed, otherwise it is over.
StartupCount(w) ==
    /\ seeding[w] = "start"
    /\ resp = NoResp
    /\ seeding' = [seeding EXCEPT ![w] = IF CountCategories = 0
                                         THEN "insert_categories" ELSE "done"]
    /\ UNCHANGED <<categories, topics, users, sessions, bookmarks, now, ticks,
                   uuid, req, resp, add_run>>

\* startup: db.categories.insert_many(categories).
StartupInsertCategories(w) ==
    /\ seeding[w] = "insert_categories"
    /\ resp = NoResp
    /\ categories' = categories \o SeedCategories
    /\ seeding' = [seeding EXCEPT ![w] = "insert_topics"]
    /\ UNCHANGED <<topics, users, sessions, bookmarks, now, ticks, uuid, req,
                   resp, add_run>>

\* startup: db.topics.insert_many(topics).
StartupInsertTopics(w) ==
    /\ seeding[w] = "insert_topics"
    /\ resp = NoResp
    /\ topics' = topics \o SeedTopics
    /\ seeding' = [seeding EXCEPT ![w] = "done"]
    /\ UNCHANGED <<categories, users, sessions, bookmarks, now, ticks, uuid,
                   req, resp, add_run>>

\* POST /seed arrives at a worker whose startup is over: the count, and
\* the "Data already seeded" reply when it finds a category.
SeedCount(p) ==
    /\ Free(p)
    /\ resp = NoResp
    /\ \E w \in Workers : seeding[w] = "done"
    /\ LET r == Request("seed_data", NoCookie, NoHeader, "")
       IN IF CountCategories > 0
          THEN Reply(p, r, 200, "Data already seeded",
                     <<[categories |-> CountCategories]>>)
          ELSE Continue(p, [r EXCEPT !.pc = "seed_categories"])
    /\ UNCHANGED <<content, users, sessions, bookmarks, now, ticks, uuid, add_run>>

\* seed_data: db.categories.insert_many(categories).
SeedInsertCategories(p) ==
    /\ req[p].pc = "seed_categories"
    /\ resp = NoResp
    /\ categories' = categories \o SeedCategories
    /\ Continue(p, [req[p] EXCEPT !.pc = "seed_topics"])
    /\ UNCHANGED <<topics, seeding, users, sessions, bookmarks, now, ticks,
                   uuid, add_run>>

\* seed_data: db.topics.insert_many(topics) and the reply.
SeedInsertTopics(p) ==
    /\ req[p].pc = "seed_topics"
    /\ resp = NoResp
    /\ topics' = topics \o SeedTopics
    /\ Reply(p, req[p], 200, "Data seeded successfully",
             <<[categories |-> Len(SeedCategories),
                topics |-> Len(SeedTopics)]>>)
    /\ UNCHANGED <<categories, seeding, users, sessions, bookmarks, now, ticks,
                   uuid, add_run>>

\* An empty content store; each worker is about to start or already runs
\* (a worker that was started on a store that has since been emptied).
InitSeed ==
    /\ users = <<>>
    /\ sessions = <<>>
    /\ bookmarks = <<>>
    /\ now = 0
    /\ ticks = 0
    /\ uuid = 0
    /\ req = [p \in Procs |-> IdleReq]
    /\ resp = NoResp
    /\ add_run = <<>>
    /\ categories = <<>>
    /\ topics = <<>>
    /\ seeding \in [Workers -> {"start", "done"}]

\* The startups of the workers and two POST /seed requests at a time.
SeedNext ==
    \/ \E w \in Workers :
         \/ StartupCount(w)
         \/ StartupInsertCategories(w)
         \/ StartupInsertTopics(w)
    \/ \E p \in Procs :
         \/ SeedCount(p)
         \/ SeedInsertCategories(p)
         \/ SeedInsertTopics(p)
    \/ SendResponse

SpecSeed == InitSeed /\ [][SeedNext]_vars

(* ------------------------------- claims -------------------------------- *)

\* Rows of a collection for one (user_id, topic_id) pair.
PairRows(bms, user_id, topic_id) ==
    LET Match(b) == b.user_id = user_id /\ b.topic_id = topic_id
    IN SelectSeq(bms, Match)

\* Rows of user_sessions carrying a token.
TokenRows(ss, token) ==
    LET Match(x) == x.session_token = token IN SelectSeq(ss, Match)

\* The last step sent the response of a request for route op.
Replied(op) == resp.op = op

\* C1: in every reachable state the bookmark store holds at most one
\* Bookmark per (user_id, topic_id) pair, under any interleaving of
\* add_bookmark requests.
C1_OneBookmarkPerPair ==
    \A i, j \in DOMAIN bookmarks :
        (/\ bookmarks[i].user_id = bookmarks[j].user_id
         /\ bookmarks[i].topic_id = bookmarks[j].topic_id) => i = j

\* C10: in every reachable state no two User records share an email,
\* under any interleaving of create_session requests.
C10_UniqueEmail ==
    \A i, j \in DOMAIN users : users[i].email = users[j].email => i = j

\* C2: when add_bookmark is called twice in sequence by the same user
\* with the same topic_id and no remove_bookmark in between, exactly one
\* Bookmark for the pair is stored afterwards and both calls return equal
\* records (bookmark_id, user_id, topic_id and created_at).
C2_AddTwiceOneRecord ==
    (add_run # <<>> /\ add_run[1].calls = 2) =>
        /\ add_run[1].first = add_run[1].last
        /\ PairRows(bookmarks, add_run[1].first.user_id,
                    add_run[1].first.topic_id) = <<add_run[1].first>>

\* C3: for every Session whose token no other row carries, created at t0:
\* while now <= t0 + 7 days get_current_user(token) returns the User the
\* session is bound to, through either credential channel; once
\* now > t0 + 7 days it returns None.
C3_SessionLifetime ==
    \A i \in DOMAIN sessions :
        LET s == sessions[i]
            t0 == FromIsoFormat(s.created_at).t
            byCookie == GetCurrentUser(s.session_token, NoHeader)
            byHeader == GetCurrentUser(NoCookie, <<"Bearer", s.session_token>>)
        IN (\A j \in DOMAIN sessions :
               j # i => sessions[j].session_token # s.session_token) =>
             /\ now <= t0 + SESSION_DAYS =>
                  /\ byCookie # <<>> /\ byCookie[1].user_id = s.user_id
                  /\ byHeader = byCookie
             /\ now > t0 + SESSION_DAYS =>
                  byCookie = <<>> /\ byHeader = <<>>

\* GET /auth/me has just been refused for the only row of its token, more
\* than 7 days after the row was created.
C3_Witness ==
    /\ Replied("auth_me") /\ resp.status = 401
    /\ Len(TokenRows(sessions, resp.session_token)) = 1
    /\ now > FromIsoFormat(TokenRows(sessions, resp.session_token)[1].created_at).t
               + SESSION_DAYS

\* C4: once a logout presenting token T in the cookie has run, no Session
\* row with token T remains, however many there were; a token without a
\* row resolves to None; and a row with token T comes back only by a
\* create_session that inserts a new session with token T.
C4_LogoutRevokes ==
    /\ [][\A t \in Tokens :
            (resp'.op = "logout" /\ resp'.cookie = t) =>
               /\ TokenRows(sessions', t) = <<>>
               /\ GetCurrentUser(t, NoHeader)' = <<>>]_vars
    /\ [](\A t \in Tokens :
            TokenRows(sessions, t) = <<>> =>
              /\ GetCurrentUser(t, NoHeader) = <<>>
              /\ GetCurrentUser(NoCookie, <<"Bearer", t>>) = <<>>)
    /\ [][\A t \in Tokens :
            (TokenRows(sessions, t) = <<>> /\ TokenRows(sessions', t) # <<>>) =>
               \E p \in Procs :
                  /\ req[p].pc = "insert_session"
                  /\ req[p].data[1].session_token = t
                  /\ req'[p].pc = "final_find"]_vars

\* A logout with a cookie has just deleted two rows of the same token.
C4_Witness ==
    /\ Replied("logout") /\ resp.status = 200 /\ resp.cookie # NoCookie
    /\ resp.deleted_count = 2
    /\ TokenRows(sessions, resp.cookie) = <<>>

\* C5: a logout that carries token T only in "Authorization: Bearer T"
\* (no cookie) deletes every Session row with token T.
C5_LogoutRevokesBearer ==
    [][(/\ resp'.op = "logout"
        /\ resp'.cookie = NoCookie
        /\ StartsWithBearer(resp'.header)) =>
          TokenRows(sessions', resp'.header[2]) = <<>>]_vars

\* The four credential cases of C6, for a request with credentials c
\* arriving in the current state.
NoCredential(c) == c.cookie = NoCookie /\ c.header = NoHeader
PresentedToken(c) ==
    IF c.cookie # NoCookie THEN c.cookie
    ELSE IF Len(c.header) = 2 /\ c.header[1] = "Bearer" THEN c.header[2]
    ELSE ""
MatchesNoSession(c) ==
    PresentedToken(c) # "" /\ TokenRows(sessions, PresentedToken(c)) = <<>>
SessionIsExpired(c) ==
    /\ TokenRows(sessions, PresentedToken(c)) # <<>>
    /\ TokenRows(sessions, PresentedToken(c))[1].expires_at.iso < now
UserIsMissing(user_id) == \A i \in DOMAIN users : users[i].user_id # user_id

\* The one 401 payload, sent without a write to the store.
Refused ==
    /\ resp'.status = 401 /\ resp'.detail = "Not authenticated"
    /\ resp'.body = <<>> /\ resp'.set_cookie = <<>>
    /\ UNCHANGED <<users, sessions, bookmarks>>

\* C6: a request for a guarded route (a) without credential, (b) with a
\* token matching no Session, (c) with the token of an expired Session or
\* (d) with the token of a Session whose User is missing is answered 401
\* "Not authenticated", the same payload in all four cases, and users,
\* sessions and bookmarks stay as they are.
C6_Unauthenticated ==
    [][/\ \A p \in Procs :
            (req[p].pc = "idle" /\ req'[p].pc = "auth_user") =>
               /\ req'[p].op \in GuardedOps
               /\ ~NoCredential(req'[p])
               /\ ~MatchesNoSession(req'[p])
               /\ ~SessionIsExpired(req'[p])
       /\ (resp'.op \in GuardedOps /\ req' = req) => Refused
       /\ \A p \in Procs :
            (/\ req[p].pc = "auth_user" /\ req'[p] # req[p]
             /\ UserIsMissing(req[p].user_id[1])) => Refused
       /\ (resp'.op \in GuardedOps /\ resp'.status = 401) => Refused]_vars

\* A guarded request has just been refused because the User of its
\* unexpired session is missing.
C6_Witness ==
    /\ resp.op \in GuardedOps /\ resp.status = 401
    /\ resp.user_id # <<>> /\ UserIsMissing(resp.user_id[1])
    /\ TokenRows(sessions, resp.session_token) # <<>>
    /\ TokenRows(sessions, resp.session_token)[1].expires_at.iso >= now

\* C7: once remove_bookmark has returned, with no add_bookmark for the
\* same pair in flight, the store holds no Bookmark for the pair, whatever
\* number of matching Bookmarks there was before.
C7_RemoveLeavesNone ==
    [][(/\ resp'.op = "remove_bookmark" /\ resp'.status = 200
        /\ \A q \in Procs : req'[q].op # "add_bookmark") =>
          PairRows(bookmarks', resp'.user_id[1], resp'.topic_id) = <<>>]_vars

\* C8: remove_bookmark by an authenticated user for a pair without
\* Bookmark returns the success message and leaves the store unchanged;
\* and after any remove_bookmark no Bookmark of the pair is left, so that a
\* second call in sequence leaves the store as the first left it.
C8_RemoveIdempotent ==
    [][\A p \in Procs :
         (req[p].pc = "delete_bookmark" /\ req'[p] # req[p]) =>
            LET user_id == req[p].user_id[1]
                topic_id == req[p].topic_id
            IN /\ resp'.op = "remove_bookmark" /\ resp'.status = 200
               /\ resp'.detail = "Bookmark removed"
               /\ PairRows(bookmarks, user_id, topic_id) = <<>> =>
                    bookmarks' = bookmarks
               /\ PairRows(bookmarks', user_id, topic_id) = <<>>]_vars

\* C9: a step of add_bookmark or remove_bookmark running for user A alone
\* changes the bookmark store, it leaves every Bookmark of another user as
\* it is, and get_bookmarks for A returns only Bookmarks of A.
OthersRows(bms, user_id) ==
    LET Match(b) == b.user_id # user_id IN SelectSeq(bms, Match)

C9_PerUserIsolation ==
    [][/\ bookmarks' # bookmarks =>
            \E p \in Procs :
               /\ req[p].pc \in {"insert_bookmark", "delete_bookmark"}
               /\ req'[p] # req[p]
               /\ OthersRows(bookmarks', req[p].user_id[1])
                    = OthersRows(bookmarks, req[p].user_id[1])
       /\ (resp'.op = "get_bookmarks" /\ resp'.status = 200) =>
            \A i \in DOMAIN resp'.body :
               resp'.body[i].user_id = resp'.user_id[1]]_vars

\* get_bookmarks has just returned the list of its user while the store
\* holds a Bookmark of another user.
C9_Witness ==
    /\ Replied("get_bookmarks") /\ resp.status = 200
    /\ \E i \in DOMAIN bookmarks : bookmarks[i].user_id # resp.user_id[1]

\* C11: the user write of a successful create_session.  When the lookup
\* by email found a User, that User keeps user_id, email and created_at,
\* gets the name and picture of the exchange (picture "" when the exchange
\* gave none), no User is added and no other User changes; when it found
\* none, exactly one User is added, with a user_id no existing User has.
C11_UserUpsert ==
    [][\A p \in Procs :
         (req[p].pc = "write_user" /\ req'[p] # req[p]) =>
            LET d == req[p].data[1]
                existing == req[p].existing_user
            IN IF existing # <<>>
               THEN /\ Len(users') = Len(users)
                    /\ \E i \in DOMAIN users :
                         /\ users[i].user_id = existing[1].user_id
                         /\ users'[i] = [user_id |-> existing[1].user_id,
                                         email |-> existing[1].email,
                                         created_at |-> existing[1].created_at,
                                         name |-> d.name,
                                         picture |-> d.picture]
                         /\ \A j \in DOMAIN users : j # i => users'[j] = users[j]
                    /\ req'[p].user_id = <<existing[1].user_id>>
               ELSE /\ Len(users') = Len(users) + 1
                    /\ SubSeq(users', 1, Len(users)) = users
                    /\ LET new == users'[Len(users')]
                       IN /\ \A j \in DOMAIN users : users[j].user_id # new.user_id
                          /\ new.email = d.email /\ new.name = d.name
                          /\ new.picture = d.picture
                          /\ req'[p].user_id = <<new.user_id>>]_vars

\* The account that signed in as Ann with a picture (the tokA session) has
\* signed in again as Anne without one: one User, renamed, picture empty.
C11_Witness ==
    /\ req["r1"].op = "create_session" /\ req["r1"].pc = "insert_session"
    /\ req["r1"].data[1].name = "Anne"
    /\ Len(users) = 1 /\ users[1].name = "Anne" /\ users[1].picture = ""
    /\ \E i \in DOMAIN sessions :
         /\ sessions[i].session_token = "tokA"
         /\ sessions[i].user_id = users[1].user_id

\* The answer of the identity exchange a create_session response follows.
ExchangeOf(r) == r.exchange[1]

\* C12: when the identity exchange answers with a status other than 200,
\* create_session replies 401, sets no cookie and leaves users, sessions
\* and bookmarks as they are; only a 200 answer lets the handler go on.
C12_RejectedExchange ==
    [][/\ (/\ resp'.op = "create_session" /\ resp'.exchange # <<>>
           /\ ExchangeOf(resp').kind = "response"
           /\ ExchangeOf(resp').status_code # 200) =>
             /\ resp'.status = 401 /\ resp'.detail = "Invalid session"
             /\ resp'.set_cookie = <<>> /\ resp'.body = <<>>
             /\ UNCHANGED <<users, sessions, bookmarks>>
       /\ \A p \in Procs :
            (req[p].pc = "idle" /\ req'[p].pc = "find_user") =>
               /\ ExchangeOf(req'[p]).kind = "response"
               /\ ExchangeOf(req'[p]).status_code = 200]_vars

\* A 403 of the exchange has just been answered with 401, with a User
\* and a Session in the store.
C12_Witness ==
    /\ Replied("create_session") /\ resp.status = 401
    /\ ExchangeOf(resp).status_code = 403
    /\ users # <<>> /\ sessions # <<>>

\* C13: when the call to the identity exchange fails without an HTTP
\* response (network error, timeout), create_session replies 401 as for
\* a rejected exchange, and writes no User and no Session.
C13_TransportFailure ==
    [][(/\ resp'.op = "create_session" /\ resp'.exchange # <<>>
        /\ ExchangeOf(resp').kind = "transport_error") =>
          /\ resp'.status = 401
          /\ UNCHANGED <<users, sessions>>]_vars

\* Rows of user_sessions carrying another token than token.
OtherTokenRows(ss, token) ==
    LET Match(x) == x.session_token # token IN SelectSeq(ss, Match)

\* C14: the session insert of create_session appends exactly one Session
\* row, bound to the request's user and token, and leaves every existing
\* row as it is; nothing but that insert and logout changes the sessions;
\* and a logout for token T1 leaves every row with another token in place
\* and every other token resolving as before.
C14_SessionsIndependent ==
    [][/\ \A p \in Procs :
            (req[p].pc = "insert_session" /\ req'[p] # req[p]) =>
               /\ Len(sessions') = Len(sessions) + 1
               /\ SubSeq(sessions', 1, Len(sessions)) = sessions
               /\ sessions'[Len(sessions')].user_id = req[p].user_id[1]
               /\ sessions'[Len(sessions')].session_token
                    = req[p].data[1].session_token
       /\ sessions' # sessions =>
            \/ \E p \in Procs :
                  req[p].pc = "insert_session" /\ req'[p] # req[p]
            \/ resp'.op = "logout"
       /\ resp'.op = "logout" =>
            /\ OtherTokenRows(sessions', resp'.session_token)
                 = OtherTokenRows(sessions, resp'.session_token)
            /\ \A t \in Tokens :
                 t # resp'.session_token =>
                    GetCurrentUser(t, NoHeader)' = GetCurrentUser(t, NoHeader)]_vars

\* The only user held sessions tokA and tokB; a logout has just deleted
\* the tokA session and tokB still resolves to the user.
C14_Witness ==
    /\ Replied("logout") /\ resp.cookie = "tokA" /\ resp.deleted_count = 1
    /\ Len(users) = 1
    /\ TokenRows(sessions, "tokB") # <<>>
    /\ GetCurrentUser("tokB", NoHeader) = <<users[1]>>

\* C15: every logout returns the success message and clears the cookie,
\* and changes neither users nor bookmarks; with no session_token cookie,
\* or with a cookie token no Session row carries, it leaves the sessions
\* unchanged too.
C15_LogoutNeverFails ==
    [][resp'.op = "logout" =>
         /\ resp'.status = 200 /\ resp'.detail = "Logged out"
         /\ resp'.set_cookie = <<[value |-> "", max_age |-> 0]>>
         /\ UNCHANGED <<users, bookmarks>>
         /\ (\/ resp'.cookie = NoCookie
             \/ TokenRows(sessions, resp'.cookie) = <<>>) =>
               sessions' = sessions]_vars

\* A logout with a cookie token that no row carries has just succeeded,
\* with a User and a Session of another token in the store.
C15_Witness ==
    /\ Replied("logout") /\ resp.status = 200
    /\ resp.cookie = "tokB" /\ resp.deleted_count = 0
    /\ users # <<>> /\ TokenRows(sessions, "tokA") # <<>>

\* The Authorization headers a request may carry.
Headers == {c.header : c \in Credentials}

\* C16: with a non-empty session_token cookie get_current_user decides
\* by the cookie token alone: the result, and the token the handler goes on
\* with, are those of the same request without the header; the Bearer
\* token of the header is used when there is no cookie.
C16_CookieFirst ==
    /\ [](\A t \in Tokens, h \in Headers :
            /\ ExtractToken(t, h) = t
            /\ GetCurrentUser(t, h) = GetCurrentUser(t, NoHeader)
            /\ GetCurrentUser(NoCookie, <<"Bearer", t>>)
                 = GetCurrentUser(t, NoHeader))
    /\ [][/\ \A p \in Procs :
               (/\ req[p].pc = "idle" /\ req'[p].pc = "auth_user"
                /\ req'[p].cookie # NoCookie) =>
                  /\ req'[p].session_token = req'[p].cookie
                  /\ TokenRows(sessions, req'[p].cookie) # <<>>
                  /\ req'[p].user_id
                       = <<TokenRows(sessions, req'[p].cookie)[1].user_id>>
          /\ (/\ resp'.op \in GuardedOps /\ req' = req
              /\ resp'.cookie # NoCookie) =>
                 /\ resp'.session_token = resp'.cookie
                 /\ GetCurrentUser(resp'.cookie, NoHeader) = <<>>]_vars

\* GET /auth/me with the cookie of no session and the Bearer token of a
\* valid session has just been refused.
C16_Witness ==
    /\ Replied("auth_me") /\ resp.status = 401
    /\ resp.cookie = "tokB" /\ resp.header = <<"Bearer", "tokA">>
    /\ GetCurrentUser(NoCookie, <<"Bearer", "tokA">>) # <<>>

\* The Bookmarks of a user, each with the Topic of its topic_id, or with
\* none (null) when no Topic has that id.
OwnedEnriched(user_id) ==
    LET Match(b) == b.user_id = user_id
        owned == SelectSeq(bookmarks, Match)
        TopicOf(topic_id) ==
            IF \E i \in DOMAIN topics : topics[i].topic_id = topic_id
            THEN <<CHOOSE t \in {topics[i] : i \in DOMAIN topics} :
                     t.topic_id = topic_id>>
            ELSE <<>>
    IN [i \in DOMAIN owned |->
          [bookmark_id |-> owned[i].bookmark_id, user_id |-> owned[i].user_id,
           topic_id |-> owned[i].topic_id, created_at |-> owned[i].created_at,
           topic |-> TopicOf(owned[i].topic_id)]]

\* C17: get_bookmarks returns every Bookmark of the user, whatever their
\* number, each with the Topic of its topic_id or null when there is none.
C17_ListsAll ==
    [][(resp'.op = "get_bookmarks" /\ resp'.status = 200) =>
          resp'.body = OwnedEnriched(resp'.user_id[1])]_vars

\* The slug of the get_category_detail request that resp answers.
SlugOf(r) == r.data[1].slug

\* C20: get_category_detail answers 404 exactly when no Category has the
\* slug; otherwise it returns that category with topic_count equal to the
\* length of the returned topics list, and every returned topic has
\* category_slug equal to the slug.
C20_CategoryDetail ==
    [][resp'.op = "get_category_detail" =>
          LET slug == SlugOf(resp')
              known == \E i \in DOMAIN categories : categories[i].slug = slug
          IN /\ resp'.status = 404 <=> ~known
             /\ known =>
                  /\ resp'.status = 200
                  /\ resp'.body[1].category.slug = slug
                  /\ resp'.body[1].category.topic_count =
                       Len(resp'.body[1].topics)
                  /\ \A i \in DOMAIN resp'.body[1].topics :
                       resp'.body[1].topics[i].category_slug = slug]_vars

\* A category is returned with two topics while a topic of another category
\* is in the collection.
C20_Witness ==
    /\ resp.op = "get_category_detail"
    /\ resp.status = 200
    /\ resp.body[1].category.topic_count = 2
    /\ Len(resp.body[1].topics) = 2
    /\ \E i \in DOMAIN topics : topics[i].category_slug # SlugOf(resp)

\* The lookup of the request that resp answers: the API key of the
\* process and how the provider answered.
LookupOf(r) == r.exchange[1]

\* The lookup fails: the client cannot be built, the search call raises,
\* or an item among the first maxResults returned cannot be read.
LookupFails(outcome, maxResults) ==
    \/ outcome.kind # "ok"
    \/ \E i \in 1..maxResults :
         /\ i <= Len(outcome.available)
         /\ outcome.available[i].video_id = <<>>

\* C18: get_topic_detail answers 404 exactly when no Topic has the
\* topic_id; otherwise it succeeds and returns the topic, and the videos
\* list is empty whenever no API key is configured or the video lookup
\* fails at any point: building the client, the search call, or reading a
\* returned item.
C18_TopicDetail ==
    [][resp'.op = "get_topic_detail" =>
          LET known == \E i \in DOMAIN topics :
                          topics[i].topic_id = resp'.topic_id
          IN /\ resp'.status = 404 <=> ~known
             /\ known =>
                  /\ resp'.status = 200
                  /\ resp'.body[1].topic.topic_id = resp'.topic_id
                  /\ (\/ LookupOf(resp').api_key = ""
                      \/ LookupFails(LookupOf(resp').outcome,
                                     TOPIC_MAX_RESULTS))
                       => resp'.body[1].videos = <<>>]_vars

\* C19: search_videos never fails; the videos list is empty when q is
\* empty, when no API key is configured or when the provider call fails in
\* any way; otherwise it holds at most 10 videos, each with the description
\* of its item cut to at most 200 characters.
C19_SearchVideos ==
    [][resp'.op = "search_videos" =>
          LET q == resp'.data[1].q
              lookup == LookupOf(resp')
              videos == resp'.body[1].videos
          IN /\ resp'.status = 200
             /\ (\/ q = ""
                 \/ lookup.api_key = ""
                 \/ LookupFails(lookup.outcome, SEARCH_MAX_RESULTS))
                  => videos = <<>>
             /\ Len(videos) <= SEARCH_MAX_RESULTS
             /\ \A i \in DOMAIN videos :
                  LET whole == lookup.outcome.available[i].description
                  IN /\ Len(videos[i].description) <= DESCRIPTION_MAX
                     /\ \A j \in DOMAIN videos[i].description :
                          videos[i].description[j] = whole[j]
                     /\ Len(whole) <= DESCRIPTION_MAX =>
                          videos[i].description = whole]_vars

\* The provider has eleven videos, one with a description of 201
\* characters: ten are returned and that description comes back with 200.
C19_Witness ==
    /\ resp.op = "search_videos"
    /\ resp.status = 200
    /\ Len(LookupOf(resp).outcome.available) = SEARCH_MAX_RESULTS + 1
    /\ Len(resp.body[1].videos) = SEARCH_MAX_RESULTS
    /\ \E i \in DOMAIN resp.body[1].videos :
         /\ Len(LookupOf(resp).outcome.available[i].description) =
              DESCRIPTION_MAX + 1
         /\ Len(resp.body[1].videos[i].description) = DESCRIPTION_MAX

\* text contains q as a substring, letters compared without case.
ContainsFolded(q, text) ==
    \E k \in DOMAIN text :
        /\ k + Len(q) - 1 <= Len(text)
        /\ \A i \in DOMAIN q : Fold(q[i]) = Fold(text[k + i - 1])

\* The topic contains q in its title, description, content or one tag.
TopicContains(q, topic_id) ==
    LET f == SearchedFields[topic_id]
    IN \/ ContainsFolded(q, f.title)
       \/ ContainsFolded(q, f.description)
       \/ ContainsFolded(q, f.content)
       \/ \E i \in DOMAIN f.tags : ContainsFolded(q, f.tags[i])

\* The topics of the store that contain q, in store order.
TopicsContaining(q) ==
    LET Has(t) == TopicContains(q, t.topic_id)
    IN SelectSeq(topics, Has)

\* C21: search_topics returns no results, and no error, for a q of length 0
\* or 1; for a q of length 2 or more it returns at most 50 topics, each
\* containing q (case-insensitively) in its title, description, content or
\* a tag, and all such topics when they are fewer than 50.
C21_SearchTopics ==
    [][resp'.op = "search_topics" =>
          LET q == resp'.data[1].q
          IN /\ resp'.status = 200
             /\ Len(q) < 2 => resp'.body[1].results = <<>>
             /\ Len(q) >= 2 =>
                  /\ Len(resp'.body[1].results) <= SEARCH_LIST_CAP
                  /\ \A i \in DOMAIN resp'.body[1].results :
                       TopicContains(q, resp'.body[1].results[i].topic_id)
                  /\ Len(TopicsContaining(q)) < SEARCH_LIST_CAP =>
                       resp'.body[1].results = TopicsContaining(q)]_vars

\* The Session row a create_session that has just replied inserted: with
\* requests served one after the other, the last row of the collection.
NewRow(ss) == ss[Len(ss)]

\* C22: on a successful create_session the cookie's value, the
\* session_token of the response body, the token of the new Session row
\* and the token the identity exchange returned are one value, and the
\* cookie's max-age, 7 days in seconds, is the lifetime of the new row
\* (expires_at minus created_at).
C22_OneTokenOneLifetime ==
    [][(resp'.op = "create_session" /\ resp'.status = 200) =>
          LET token == resp'.data[1].session_token
              row == NewRow(sessions')
          IN /\ resp'.set_cookie # <<>>
             /\ resp'.set_cookie[1].value = token
             /\ resp'.body[1].session_token = token
             /\ row.session_token = token
             /\ row.user_id = resp'.user_id[1]
             /\ resp'.set_cookie[1].max_age = SESSION_DAYS * 24 * 60 * 60
             /\ (FromIsoFormat(row.expires_at).t
                   - FromIsoFormat(row.created_at).t) * 24 * 60 * 60
                  = resp'.set_cookie[1].max_age]_vars

\* A second sign-in has succeeded, after the clock moved, with a token
\* other than the first row's.
C22_Witness ==
    /\ resp.op = "create_session" /\ resp.status = 200
    /\ Len(sessions) = 2
    /\ sessions[1].session_token # sessions[2].session_token
    /\ resp.set_cookie[1].value = sessions[2].session_token
    /\ FromIsoFormat(sessions[2].created_at).t > 0

\* C23: no two Session rows carry the same session_token, whatever tokens
\* the identity exchange returns for the successful create_session calls.
C23_UniqueToken ==
    \A i, j \in DOMAIN sessions :
        sessions[i].session_token = sessions[j].session_token => i = j

\* C24: a logout of token T is effective against requests in flight: a
\* request that presented T writes to bookmarks (insert or delete) only
\* while a Session row with T exists. Rows go away by logout alone, so a
\* write without a row is a write after the logout of T has completed.
C24_RevocationInFlight ==
    [][\A p \in Procs :
          (/\ req[p].pc \in {"insert_bookmark", "delete_bookmark"}
           /\ req'[p].pc = "idle"
           /\ bookmarks' # bookmarks)
            => TokenRows(sessions, req[p].session_token) # <<>>]_vars

\* The routes that resolve a session and read.
ReadOnlyOps == {"auth_me", "get_bookmarks"}

\* The rows of ss whose token is not token.
WithoutToken(ss, token) ==
    LET Keep(x) == x.session_token # token
    IN SelectSeq(ss, Keep)

\* C25: no step of GET /auth/me or GET /bookmarks changes a store record,
\* and a guarded request that is refused (an expired session included)
\* leaves user_sessions as it was; the collection changes only by a
\* create_session appending one row or by a logout removing the rows of
\* its token, so no row's expires_at is ever altered and an expired row
\* stays until a logout for its token.
C25_ReadsChangeNothing ==
    /\ [][\A p \in Procs :
            (/\ req'[p] # req[p]
             /\ req[p].op \in ReadOnlyOps \/ req'[p].op \in ReadOnlyOps)
              => UNCHANGED <<users, sessions, bookmarks>>]_vars
    /\ [][(resp'.op \in GuardedOps /\ resp'.status = 401)
              => sessions' = sessions]_vars
    /\ [][sessions' # sessions =>
            \/ /\ resp'.op = "logout"
               /\ sessions' = WithoutToken(sessions, resp'.cookie)
            \/ /\ Len(sessions') = Len(sessions) + 1
               /\ SubSeq(sessions', 1, Len(sessions)) = sessions
               /\ \E p \in Procs :
                    /\ req[p].op = "create_session"
                    /\ req'[p] # req[p]]_vars

\* GET /auth/me has just been refused for an expired session, and the
\* expired row is still in user_sessions.
C25_Witness ==
    /\ resp.op = "auth_me" /\ resp.status = 401
    /\ \E i \in DOMAIN sessions :
         /\ sessions[i].session_token = resp.session_token
         /\ SessionExpired(sessions[i], now)

\* The email of the User with this user_id.
EmailOf(user_id) == FindUserById(user_id)[1].email

\* The Bookmarks made for the account with this email, in store order.
BookmarksOfEmail(email) ==
    LET SameAccount(b) == EmailOf(b.user_id) = email
    IN SelectSeq(bookmarks, SameAccount)

\* C26: bookmarks belong to the user, not to the session: whatever session
\* of an account get_bookmarks runs under - one established after the
\* session that made the bookmarks was ended, with a changed name or
\* picture or not - it reads exactly the Bookmarks made for that email.
C26_BookmarksSurviveRelogin ==
    [][\A p \in Procs :
          (req[p].pc = "find_bookmarks" /\ req'[p].pc = "enrich") =>
             req'[p].found = BookmarksOfEmail(EmailOf(req[p].user_id[1]))]_vars

\* Some User has this user_id.
UserExists(user_id) == \E i \in DOMAIN users : users[i].user_id = user_id

\* C27: every Session row and every Bookmark row has the user_id of an
\* existing User, no step removes a User, and get_current_user never finds
\* a session whose user is missing (no guarded request is refused at the
\* user lookup).
C27_ReferentialIntegrity ==
    /\ [](/\ \A i \in DOMAIN sessions : UserExists(sessions[i].user_id)
          /\ \A i \in DOMAIN bookmarks : UserExists(bookmarks[i].user_id))
    /\ [][\A i \in DOMAIN users : UserExists(users[i].user_id)']_vars
    /\ [][\A p \in Procs :
            (req[p].pc = "auth_user" /\ req'[p].pc = "idle")
              => resp'.status # 401]_vars

\* A guarded request has passed the user lookup while Sessions and
\* Bookmarks of two Users are stored.
C27_Witness ==
    /\ resp.op = "auth_me" /\ resp.status = 200
    /\ bookmarks # <<>>
    /\ \E i, j \in DOMAIN sessions : sessions[i].user_id # sessions[j].user_id

ExternalCallFailed(r) ==
    \/ r.op = "create_session"
         /\ (ExchangeOf(r).kind # "response" \/ ExchangeOf(r).status_code # 200)
    \/ r.op \in {"get_topic_detail", "search_videos"}
         /\ r.exchange # <<>>
         /\ LookupOf(r).outcome.kind \in {"http_error", "error"}

C30_SeededOnce ==
    /\ [](/\ \A i, j \in DOMAIN categories :
               categories[i].slug = categories[j].slug => i = j
          /\ \A i, j \in DOMAIN topics :
               topics[i].topic_id = topics[j].topic_id => i = j)
    /\ [][(resp'.op = "seed_data" /\ resp'.detail = "Data already seeded")
             => UNCHANGED <<categories, topics>>]_vars

====
